---- MODULE Spec2Model ----
(***************************************************************************)
(* MiVilla: the visitor access-credential lifecycle.                       *)
(*                                                                         *)
(* QRGenerator issues invitations (JSON payloads rendered as QR codes),    *)
(* QRValidator scans and validates them at the checkpoint, App owns the    *)
(* residents collection and sweeps expired records from it on a timer.     *)
(*                                                                         *)
(* Time is epoch milliseconds.  JavaScript values are tagged records so    *)
(* that values of different JavaScript types can be compared.              *)
(***************************************************************************)
EXTENDS Integers, Sequences, FiniteSets, TLC

VARIABLES
    now,                \* the reading of the wall clock (Date.now())
    currentUser,        \* App: the logged-in user, or NoUser
    activeTab,          \* App: the tab whose component is mounted
    residents,          \* App: the residents collection (all tenants)
    newResident,        \* UserManagement: the "add" form
    editingId,          \* UserManagement: <<id>> of the row in edit mode, <<>> = null
    editForm,           \* UserManagement: <<copy of the resident being edited>>, <<>> = {}
    extendingId,        \* UserManagement: <<id>> of the row whose expiry is extended
    extensionDate,      \* UserManagement: the datetime-local input, <<>> = ''
    deletingId,         \* UserManagement: <<id>> the delete modal asks about
    persisted,          \* localStorage['condoguard_residents']: <<item>>, <<>> = null
    storageFails,       \* localStorage.setItem throws (quota, blocked storage)
    sweepPending,       \* the interval called setResidents, React has not rendered yet
    selectedResidentId, \* QRGenerator: the host chosen in the select
    expirationDate,     \* QRGenerator: the datetime-local input, <<>> = ''
    quantity,           \* QRGenerator: the number input
    generatedCodes,     \* QRGenerator: the codes of the last issuance
    generatedPayloads,  \* the payload each of those codes was written from
    uuidCount,          \* how many identifiers crypto.randomUUID() has handed out
    transport,          \* QR images that left the generator: [text, payload]
    scanStatus,         \* QRValidator: 'idle' | 'scanning' | 'valid' | 'invalid'
    scannedData,        \* QRValidator: the accepted payload, or Null
    errorMsg,           \* QRValidator: the reason shown, NoError = ''
    pendingAcquire,     \* getUserMedia() calls of this QRValidator not yet settled
    streamAttached,     \* video.srcObject holds a live stream
    rafLoops,           \* frame loops (requestAnimationFrame(tick)) alive
    strayStream,        \* a MediaStream no mounted <video> holds is live, or is due
                        \* from a getUserMedia() call whose QRValidator is gone
    rawData,            \* <<text>> while the validator shows what validateQR(text) left
    scanTime,           \* the clock reading that validateQR call compared against
    accepted,           \* the texts validateQR has accepted so far
    reused,             \* the text of the last validateQR call had been accepted before
    swept,              \* <<[at, by, dropped]>> when the last step ran the updater of
                        \* checkExpiration: the clock reading, what the run came with
                        \* ("mount", "interval", or the UserManagement write it
                        \* was queued before: "add", "edit", "extension",
                        \* "delete"), the records it dropped
    crashed             \* a render threw: React unmounted the tree

vars == <<now, currentUser, activeTab, residents, newResident,
          editingId, editForm, extendingId, extensionDate, deletingId,
          persisted, storageFails, sweepPending, strayStream,
          selectedResidentId, expirationDate, quantity, generatedCodes,
          generatedPayloads, uuidCount, transport, scanStatus, scannedData, errorMsg,
          pendingAcquire, streamAttached, rafLoops,
          rawData, scanTime, accepted, reused, swept, crashed>>

appVars == <<currentUser, activeTab>>
editVars == <<editingId, editForm, extendingId, extensionDate, deletingId>>
diskVars == <<persisted, storageFails>>
storeVars == <<residents, newResident, editVars, diskVars, sweepPending>>
genVars == <<selectedResidentId, expirationDate, quantity, generatedCodes,
            generatedPayloads>>
scanVars == <<scanStatus, scannedData, errorMsg, rawData, scanTime>>
histVars == <<accepted, reused>>
camVars == <<pendingAcquire, streamAttached, rafLoops, strayStream>>

(***************************************************************************)
(* Bounds of the model.                                                    *)
(***************************************************************************)
T0 == 119999
MaxStep == 1
MaxUuid == 2
MaxShared == 1
MaxResidents == 6
MaxPending == 1
MaxLoops == 1
MaxAccepted == 2

\* 24 * 60 * 60 * 1000
DayMs == 86400000

\* the max attribute of the quantity input
MaxQuantity == 20

ClockReadings ==
    {T0 + i : i \in 0..MaxStep} \cup {T0 + DayMs + i : i \in 0..MaxStep}

\* values a datetime-local input can hold (whole minutes)
DateInputs == {120000}

(***************************************************************************)
(* JavaScript values.                                                      *)
(***************************************************************************)
Undefined == [t |-> "undefined"]
Null == [t |-> "null"]
Str(s) == [t |-> "string", s |-> s]
\* a string that spells the instant ms (toISOString(), or a datetime-local value)
DateStr(ms) == [t |-> "string", date |-> ms]
Num(n) == [t |-> "number", n |-> n]
\* an object: its own keys in insertion order, and the value of each
Obj(keys, f) == [t |-> "object", keys |-> keys, o |-> f]

IsObj(v) == v.t = "object"

\* v[k] for a non-nullish v: own property of an object, undefined on a primitive
Prop(v, k) ==
    IF IsObj(v) /\ k \in DOMAIN v.o THEN v.o[k] ELSE Undefined

\* !v
Falsy(v) ==
    \/ v.t \in {"undefined", "null"}
    \/ v = Str("")
    \/ v = Num(0)

\* new Date(v).getTime(): <<ms>>, or <<>> for an Invalid Date (NaN)
NewDate(v) ==
    CASE v.t = "string" /\ "date" \in DOMAIN v -> <<v.date>>
      [] v.t = "number" -> <<v.n>>
      [] v.t = "null" -> <<0>>
      [] OTHER -> <<>>

\* a < b on Date values: false as soon as one side is NaN
DateLT(a, b) == a # <<>> /\ b # <<>> /\ a[1] < b[1]

\* a <= b on Date values
DateLE(a, b) == a # <<>> /\ b # <<>> /\ a[1] <= b[1]

(***************************************************************************)
(* Texts and JSON.  A text is either JSON (its document: scalars as they   *)
(* are, an object as the sequence of its members <<key, document>> in the  *)
(* order they are written) or anything else.                               *)
(***************************************************************************)
NotJson(s) == [kind |-> "text", s |-> s]
JsonText(doc) == [kind |-> "json", doc |-> doc]
Members(m) == [t |-> "object", m |-> m]

\* mutant: a nested object is written the way String() spells it
DocOf_Flat(v) ==
    IF IsObj(v)
    THEN LET ks == SelectSeq(v.keys, LAMBDA k : v.o[k].t # "undefined")
         IN  Members([i \in 1..Len(ks) |->
                        <<ks[i], IF IsObj(v.o[ks[i]]) THEN Str("[object Object]")
                                 ELSE v.o[ks[i]]>>])
    ELSE v

RECURSIVE DocOf(_)
\* the document JSON.stringify writes for v: members in key order, a member
\* whose value is undefined is left out
DocOf(v) ==
    IF IsObj(v)
    THEN LET ks == SelectSeq(v.keys, LAMBDA k : v.o[k].t # "undefined")
         IN  Members([i \in 1..Len(ks) |-> <<ks[i], DocOf(v.o[ks[i]])>>])
    ELSE v

JSONStringify(v) == JsonText(DocOf(v))

FirstIdx(m) == {i \in DOMAIN m : \A j \in 1..(i - 1) : m[j][1] # m[i][1]}

RECURSIVE ValueOf(_)
\* the value JSON.parse builds from a document: keys in the order of their
\* first occurrence, each with the value of its last occurrence
ValueOf(d) ==
    IF d.t = "object"
    THEN LET m == d.m
             first == FirstIdx(m)
             keys == [n \in 1..Cardinality(first) |->
                        m[CHOOSE i \in first :
                            Cardinality({j \in first : j < i}) = n - 1][1]]
             last(k) == CHOOSE i \in DOMAIN m :
                            /\ m[i][1] = k
                            /\ \A j \in DOMAIN m : m[j][1] = k => j <= i
         IN  Obj(keys, [k \in {m[i][1] : i \in DOMAIN m} |-> ValueOf(m[last(k)][2])])
    ELSE d

\* JSON.parse throws a SyntaxError on a text that is not JSON
ParseThrows(text) == text.kind # "json"
JSONParse(text) == ValueOf(text.doc)

(***************************************************************************)
(* QRValidator.validateQR                                                  *)
(***************************************************************************)
NoError == [kind |-> "none"]
MalformedPayload == [kind |-> "MalformedPayload"]
TenantMismatch(found) == [kind |-> "TenantMismatch", tenant |-> found]
Expired(at) == [kind |-> "Expired", expiresAt |-> at]
AcquisitionFailed == [kind |-> "AcquisitionFailed"]

Outcome(status, data, msg) == [status |-> status, data |-> data, msg |-> msg]

\* mutant: the structure check forgets visitorName
StructureBad_NoVisitor(payload) ==
    \/ Falsy(Prop(payload, "tenantId"))
    \/ Falsy(Prop(payload, "expiresAt"))

\* 1. Validate Structure: the throw of validateQR
StructureBad(payload) ==
    \/ Falsy(Prop(payload, "tenantId"))
    \/ Falsy(Prop(payload, "expiresAt"))
    \/ Falsy(Prop(payload, "visitorName"))

\* 2. Validate Domain
DomainBad(payload, tenantId) == Prop(payload, "tenantId") # Str(tenantId)

\* 3. Validate Expiration: new Date(payload.expiresAt) < new Date()
ExpirationBad(payload, clock) ==
    DateLT(NewDate(Prop(payload, "expiresAt")), <<clock>>)

\* what the catch block of validateQR sets; prev is <<scannedData, errorMsg>>
\* before the call (a setter that is not called keeps its state)
Caught(prev) == Outcome("invalid", prev[1], MalformedPayload)

\* mutant: the expiration is checked before the domain
Checks_ExpiryFirst(payload, tenantId, clock, prev) ==
    IF payload.t = "null" THEN Caught(prev)
    ELSE IF StructureBad(payload) THEN Caught(prev)
    ELSE IF ExpirationBad(payload, clock)
    THEN Outcome("invalid", prev[1], Expired(NewDate(Prop(payload, "expiresAt"))))
    ELSE IF DomainBad(payload, tenantId)
    THEN Outcome("invalid", prev[1], TenantMismatch(Prop(payload, "tenantId")))
    ELSE Outcome("valid", payload, prev[2])

\* the checks of validateQR on the parsed payload, in the order of the code
Checks(payload, tenantId, clock, prev) ==
    \* reading a property of null throws a TypeError
    IF payload.t = "null" THEN Caught(prev)
    ELSE IF StructureBad(payload) THEN Caught(prev)
    ELSE IF DomainBad(payload, tenantId)
    THEN Outcome("invalid", prev[1], TenantMismatch(Prop(payload, "tenantId")))
    ELSE IF ExpirationBad(payload, clock)
    THEN Outcome("invalid", prev[1], Expired(NewDate(Prop(payload, "expiresAt"))))
    \* 4. Success
    ELSE Outcome("valid", payload, prev[2])

\* mutant: a credential is consumed by its first accepted scan
ValidateQR_SingleUse(rawData_, tenantId, clock, prev) ==
    IF ParseThrows(rawData_) \/ rawData_ \in accepted THEN Caught(prev)
    ELSE Checks(JSONParse(rawData_), tenantId, clock, prev)

\* the state validateQR leaves behind for the text rawData_, read by a user of
\* tenant tenantId when the clock shows clock
ValidateQR(rawData_, tenantId, clock, prev) ==
    IF ParseThrows(rawData_) THEN Caught(prev)
    ELSE Checks(JSONParse(rawData_), tenantId, clock, prev)

\* rendering the "valid" panel throws when createdBy is null or undefined
\* (scannedData.createdBy.name) or when a rendered child is an object
RenderThrows(data) ==
    \/ Prop(data, "createdBy").t \in {"undefined", "null"}
    \/ \E k \in {"visitorName", "residentName", "residentUnit"} : IsObj(Prop(data, k))
    \/ IsObj(Prop(Prop(data, "createdBy"), "name"))

(***************************************************************************)
(* App: users, tabs, the clock.                                            *)
(***************************************************************************)
NoUser == [id |-> "null"]

MOCK_USERS == <<
    [id |-> "u1", name |-> "Carlos Admin", role |-> "X", tenantId |-> "t1", unit |-> <<>>],
    [id |-> "u2", name |-> "Ana Porteria", role |-> "A", tenantId |-> "t1", unit |-> <<>>],
    [id |-> "u3", name |-> "Beto Residente", role |-> "B", tenantId |-> "t1", unit |-> <<"101">>] >>

Resident(id, tenantId, name, unit, type, licensePlate, expiration) ==
    [id |-> id, tenantId |-> tenantId, name |-> name, unit |-> unit, type |-> type,
     status |-> "Active", licensePlate |-> licensePlate, expirationDate |-> expiration]

INITIAL_RESIDENTS == <<
    Resident("1", "t1", "Juan Perez", "101", "Resident", <<"GH-45-22">>, <<>>),
    Resident("2", "t1", "Maria Lopez", "202", "Resident", <<>>, <<>>),
    Resident("3", "t1", "Hijo de Beto", "101", "Family", <<>>, <<>>),
    Resident("4", "t1", "Pedro Repartidor", "101", "Delivery", <<"DL-99-00">>, <<>>) >>

\* Sidebar: the roles each menu item is shown to
MenuRoles(tab) ==
    CASE tab = "generate-qr" -> {"X", "B"}
      [] tab = "validate-qr" -> {"X", "A"}
      [] OTHER -> {"X", "A", "B"}

Tabs == {"dashboard", "users", "generate-qr", "validate-qr", "profile"}

\* the component of tab is rendered
Mounted(tab) == ~crashed /\ currentUser # NoUser /\ activeTab = tab

\* UserManagement: useState of newResident for the user who mounts it
FormInit(user) ==
    [name |-> "",
     unit |-> IF user # NoUser /\ user.role = "B" /\ user.unit # <<>> THEN user.unit[1] ELSE "",
     type |-> "Family", licensePlate |-> "", expirationDate |-> <<>>]

\* every component but the one of tab is unmounted and loses its state; the one
\* of tab starts from its useState initial values
Remount(tab, user) ==
    /\ newResident' = IF tab = "users" THEN FormInit(user) ELSE FormInit(NoUser)
    /\ editingId' = <<>>
    /\ editForm' = <<>>
    /\ extendingId' = <<>>
    /\ extensionDate' = <<>>
    /\ deletingId' = <<>>
    /\ selectedResidentId' = ""
    /\ expirationDate' = <<>>
    /\ quantity' = 1
    /\ generatedCodes' = <<>>
    /\ generatedPayloads' = <<>>
    /\ scanStatus' = "idle"
    /\ scannedData' = Null
    /\ errorMsg' = NoError
    /\ rawData' = <<>>
    /\ scanTime' = <<>>
    /\ pendingAcquire' = 0
    /\ streamAttached' = FALSE
    /\ rafLoops' = 0
    \* the cleanup effect calls stopCamera: whether videoRef.current still holds
    \* the <video> element then depends on when React detaches refs.  A
    \* getUserMedia call still pending settles after the component is gone: if
    \* it resolves, videoRef holds nothing and the stream is never stopped
    /\ strayStream' \in (IF streamAttached \/ pendingAcquire > 0
                         THEN {strayStream, TRUE} ELSE {strayStream})

HandleLogin(u) ==
    /\ ~crashed
    /\ currentUser = NoUser
    /\ currentUser' = u
    /\ activeTab' = "dashboard"
    /\ Remount("dashboard", u)
    /\ swept' = <<>>
    /\ UNCHANGED <<now, residents, diskVars, sweepPending, uuidCount, transport, accepted,
                   reused, crashed>>

HandleLogout ==
    /\ ~crashed
    /\ currentUser # NoUser
    /\ currentUser' = NoUser
    /\ Remount("none", NoUser)
    /\ swept' = <<>>
    /\ UNCHANGED <<now, activeTab, residents, diskVars, sweepPending, uuidCount, transport,
                   accepted, reused, crashed>>

TabChange(tab) ==
    /\ ~crashed
    /\ currentUser # NoUser
    /\ currentUser.role \in MenuRoles(tab)
    /\ tab # activeTab
    /\ activeTab' = tab
    /\ Remount(tab, currentUser)
    /\ swept' = <<>>
    /\ UNCHANGED <<now, currentUser, residents, diskVars, sweepPending, uuidCount, transport,
                   accepted, reused, crashed>>

\* time passes
Tick ==
    /\ \E t \in ClockReadings : t > now /\ now' = t
    /\ swept' = <<>>
    /\ UNCHANGED <<appVars, storeVars, genVars, uuidCount, transport, scanVars,
                   histVars, camVars, crashed>>

(***************************************************************************)
(* App.checkExpiration                                                     *)
(***************************************************************************)
\* residents.find(r => r.id === id), when there is one
FindFirst(list, id) ==
    list[CHOOSE i \in DOMAIN list :
            list[i].id = id /\ \A j \in DOMAIN list : list[j].id = id => i <= j]

\* mutant: the boundary is taken strictly, expDate < now
IsExpired_Strict(r, clock) ==
    /\ r.expirationDate # <<>>
    /\ DateLT(NewDate(DateStr(r.expirationDate[1])), <<clock>>)

IsExpired(r, clock) ==
    /\ r.expirationDate # <<>>
    /\ DateLE(NewDate(DateStr(r.expirationDate[1])), <<clock>>)

\* mutant: a run drops the first expired record only
CheckExpiration_FirstOnly(currentResidents, clock) ==
    LET expired == {i \in DOMAIN currentResidents : IsExpired(currentResidents[i], clock)}
        first == CHOOSE i \in expired : \A j \in expired : i <= j
    IN  IF expired = {} THEN currentResidents
        ELSE SubSeq(currentResidents, 1, first - 1)
                 \o SubSeq(currentResidents, first + 1, Len(currentResidents))

\* the records a run of the filter callback marks expired
Dropped(currentResidents, clock) ==
    SelectSeq(currentResidents, LAMBDA r : IsExpired(r, clock))

CheckExpiration(currentResidents, clock) ==
    LET validResidents == SelectSeq(currentResidents, LAMBDA r : ~IsExpired(r, clock))
        hasChanges == \E i \in DOMAIN currentResidents : IsExpired(currentResidents[i], clock)
    IN  IF hasChanges THEN validResidents ELSE currentResidents

(***************************************************************************)
(* useLocalStorage: the residents collection in localStorage               *)
(***************************************************************************)
ResidentKeys == <<"id", "tenantId", "name", "unit", "type", "status", "licensePlate",
                  "expirationDate">>

\* a Resident as a JavaScript object
ResidentValue(r) ==
    Obj(ResidentKeys,
        [id |-> Str(r.id), tenantId |-> Str(r.tenantId), name |-> Str(r.name),
         unit |-> Str(r.unit), type |-> Str(r.type), status |-> Str(r.status),
         licensePlate |-> IF r.licensePlate = <<>> THEN Undefined
                          ELSE Str(r.licensePlate[1]),
         expirationDate |-> IF r.expirationDate = <<>> THEN Undefined
                            ELSE DateStr(r.expirationDate[1])])

\* the Resident a parsed object is used as
ResidentOf(v) ==
    [id |-> Prop(v, "id").s, tenantId |-> Prop(v, "tenantId").s, name |-> Prop(v, "name").s,
     unit |-> Prop(v, "unit").s, type |-> Prop(v, "type").s, status |-> Prop(v, "status").s,
     licensePlate |-> IF Prop(v, "licensePlate").t = "undefined" THEN <<>>
                      ELSE <<Prop(v, "licensePlate").s>>,
     expirationDate |-> IF Prop(v, "expirationDate").t = "undefined" THEN <<>>
                        ELSE <<Prop(v, "expirationDate").date>>]

\* JSON.stringify(storedValue): the array, element by element
StoreItem(list) == [i \in DOMAIN list |-> JSONStringify(ResidentValue(list[i]))]

\* JSON.parse(item)
ReadItem(item) == [i \in DOMAIN item |-> ResidentOf(JSONParse(item[i]))]

\* the useState initializer: item ? JSON.parse(item) : initialValue
StoredValue(stored, initialValue) ==
    IF stored = <<>> THEN initialValue ELSE ReadItem(stored[1])

\* the effect that follows a render with a new storedValue; a setItem that
\* throws is caught and logged
SetItem(value) ==
    persisted' = IF storageFails THEN persisted ELSE <<StoreItem(value)>>

\* mutant: the handler passes a list built from the residents it rendered, which
\* replaces whatever was queued
Pending_Overwritten(prev) == prev

\* the state a handler's updater receives as prev: the updaters queued before
\* it have run (the sweep of the interval, when React has not rendered it yet)
Pending(prev) ==
    IF sweepPending THEN CheckExpiration(prev, now) ELSE prev

\* setResidents(updater) and the render that follows
SetResidents(value, by) ==
    /\ residents' = value
    /\ swept' = IF sweepPending
                THEN <<[at |-> now, by |-> by, dropped |-> Dropped(residents, now)]>>
                ELSE <<>>
    /\ sweepPending' = FALSE
    /\ SetItem(value)

\* mutant: the cleanup of the effect does not clear the interval
IntervalLive_Kept == TRUE

\* setInterval is called when App mounts; the cleanup of the effect calls
\* clearInterval when React unmounts App, and nothing else does
IntervalLive == ~crashed

\* the interval fires: checkExpiration calls setResidents
SweepFires ==
    /\ IntervalLive
    /\ ~sweepPending
    /\ sweepPending' = TRUE
    /\ swept' = <<>>
    /\ UNCHANGED <<now, appVars, residents, newResident, editVars, diskVars, genVars,
                   uuidCount, transport, scanVars, histVars, camVars, crashed>>

\* mutant: checkExpiration runs on mount only, no interval is set
Sweep_MountOnly ==
    /\ FALSE
    /\ UNCHANGED vars

\* React treats every value an updater returns as a new state
StateChanged_Always(prev, next) == TRUE

\* React keeps the state, and runs no effect that depends on it, when the
\* updater returns the array it was given; checkExpiration returns another
\* array only when it has removed a grant
StateChanged(prev, next) == next # prev

\* the interval fires (the effect lives as long as App is mounted) and React
\* renders: the updater keeps the array when nothing expired
Sweep ==
    /\ IntervalLive
    /\ residents' = CheckExpiration(residents, now)
    /\ swept' = <<[at |-> now, by |-> "interval", dropped |-> Dropped(residents, now)]>>
    /\ sweepPending' = FALSE
    /\ IF StateChanged(residents, residents') THEN SetItem(residents') ELSE UNCHANGED persisted
    /\ UNCHANGED <<now, appVars, newResident, editVars, storageFails, genVars, uuidCount,
                   transport, scanVars, accepted, reused, camVars, crashed>>

\* the page is loaded again: memory is lost, the collection is read from
\* localStorage, the mount effects write it back and sweep it
Reload ==
    /\ LET stored == StoredValue(persisted, INITIAL_RESIDENTS)
       IN  /\ residents' = CheckExpiration(stored, now)
           /\ swept' = <<[at |-> now, by |-> "mount", dropped |-> Dropped(stored, now)]>>
           /\ SetItem(residents')
    /\ currentUser' = NoUser
    /\ activeTab' = "dashboard"
    /\ newResident' = FormInit(NoUser)
    /\ editingId' = <<>>
    /\ editForm' = <<>>
    /\ extendingId' = <<>>
    /\ extensionDate' = <<>>
    /\ deletingId' = <<>>
    /\ sweepPending' = FALSE
    /\ selectedResidentId' = ""
    /\ expirationDate' = <<>>
    /\ quantity' = 1
    /\ generatedCodes' = <<>>
    /\ generatedPayloads' = <<>>
    /\ scanStatus' = "idle"
    /\ scannedData' = Null
    /\ errorMsg' = NoError
    /\ rawData' = <<>>
    /\ scanTime' = <<>>
    /\ pendingAcquire' = 0
    /\ streamAttached' = FALSE
    /\ rafLoops' = 0
    /\ strayStream' = FALSE
    /\ crashed' = FALSE
    /\ UNCHANGED <<now, storageFails, uuidCount, transport, accepted, reused>>

\* localStorage starts or stops refusing writes
StorageChange ==
    /\ storageFails' = ~storageFails
    /\ swept' = <<>>
    /\ UNCHANGED <<now, appVars, residents, newResident, editVars, persisted, sweepPending,
                   genVars, uuidCount, transport, scanVars, histVars, camVars, crashed>>

(***************************************************************************)
(* UserManagement                                                          *)
(***************************************************************************)
NameInputs == {"Ana"}
UnitInputs == {"101", "202"}

CanManage == Mounted("users") /\ currentUser.role \in {"X", "B"}

\* the confirmation modal covers the page while deletingId is set
ModalOpen == deletingId # <<>>

\* the "add" form is rendered
AddFormShown == CanManage /\ editingId = <<>> /\ extendingId = <<>> /\ ~ModalOpen

SetNewName(n) ==
    /\ AddFormShown
    /\ newResident' = [newResident EXCEPT !.name = n]
    /\ swept' = <<>>
    /\ UNCHANGED <<now, appVars, residents, editVars, diskVars, sweepPending, genVars,
                   uuidCount, transport, scanVars, histVars, camVars, crashed>>

SetNewUnit(u) ==
    /\ AddFormShown
    /\ currentUser.role = "X"
    /\ newResident' = [newResident EXCEPT !.unit = u]
    /\ swept' = <<>>
    /\ UNCHANGED <<now, appVars, residents, editVars, diskVars, sweepPending, genVars,
                   uuidCount, transport, scanVars, histVars, camVars, crashed>>

SetNewExpiration(d) ==
    /\ AddFormShown
    /\ newResident' = [newResident EXCEPT !.expirationDate = d]
    /\ swept' = <<>>
    /\ UNCHANGED <<now, appVars, residents, editVars, diskVars, sweepPending, genVars,
                   uuidCount, transport, scanVars, histVars, camVars, crashed>>

HandleAdd ==
    /\ AddFormShown
    /\ Len(residents) < MaxResidents
    /\ IF newResident.name = "" \/ newResident.unit = ""
       THEN /\ swept' = <<>>
            /\ UNCHANGED <<residents, newResident, persisted, sweepPending>>
       ELSE /\ SetResidents(Append(Pending(residents),
                    Resident(ToString(now), currentUser.tenantId, newResident.name,
                             newResident.unit, newResident.type,
                             IF newResident.licensePlate = "" THEN <<>>
                             ELSE <<newResident.licensePlate>>,
                             newResident.expirationDate)), "add")
            /\ newResident' = FormInit(currentUser)
    /\ UNCHANGED <<now, appVars, editVars, storageFails, genVars, uuidCount, transport,
                   scanVars, histVars, camVars, crashed>>

\* filtered: the rows UserManagement renders (search and type filter left open)
Filtered ==
    {i \in DOMAIN residents :
        currentUser.role = "B" => <<residents[i].unit>> = currentUser.unit}

\* the row of residents[i] shows its extend, edit and delete buttons
RowButtons(i) ==
    /\ CanManage
    /\ ~ModalOpen
    /\ i \in Filtered
    /\ extendingId = <<>>
    /\ editingId # <<residents[i].id>>

\* the row in edit mode (editingId === r.id) is rendered
EditRowShown ==
    /\ Mounted("users")
    /\ ~ModalOpen
    /\ \E i \in Filtered : editingId = <<residents[i].id>>

\* the row in extension mode (extendingId === r.id) is rendered
ExtendRowShown ==
    /\ Mounted("users")
    /\ ~ModalOpen
    /\ \E i \in Filtered : extendingId = <<residents[i].id>> /\ editingId # extendingId

HandleEditClick(i) ==
    /\ RowButtons(i)
    /\ IF currentUser.role = "B" /\ <<residents[i].unit>> # currentUser.unit
       THEN UNCHANGED editVars
       ELSE /\ editingId' = <<residents[i].id>>
            /\ editForm' = <<residents[i]>>
            /\ extendingId' = <<>>
            /\ UNCHANGED <<extensionDate, deletingId>>
    /\ swept' = <<>>
    /\ UNCHANGED <<now, appVars, residents, newResident, diskVars, sweepPending, genVars,
                   uuidCount, transport, scanVars, histVars, camVars, crashed>>

EditNameInputs == {"", "Eva"}

SetEditName(n) ==
    /\ EditRowShown
    /\ editForm' = <<[editForm[1] EXCEPT !.name = n]>>
    /\ swept' = <<>>
    /\ UNCHANGED <<now, appVars, residents, newResident, editingId, extendingId,
                   extensionDate, deletingId, diskVars, sweepPending, genVars, uuidCount,
                   transport, scanVars, histVars, camVars, crashed>>

\* the unit input of the edit row is disabled for role B
SetEditUnit(u) ==
    /\ EditRowShown
    /\ currentUser.role # "B"
    /\ editForm' = <<[editForm[1] EXCEPT !.unit = u]>>
    /\ swept' = <<>>
    /\ UNCHANGED <<now, appVars, residents, newResident, editingId, extendingId,
                   extensionDate, deletingId, diskVars, sweepPending, genVars, uuidCount,
                   transport, scanVars, histVars, camVars, crashed>>

HandleCancelEdit ==
    /\ EditRowShown
    /\ editingId' = <<>>
    /\ editForm' = <<>>
    /\ swept' = <<>>
    /\ UNCHANGED <<now, appVars, residents, newResident, extendingId, extensionDate,
                   deletingId, diskVars, sweepPending, genVars, uuidCount, transport,
                   scanVars, histVars, camVars, crashed>>

\* { ...r, ...editForm }: the keys editForm holds replace those of r; an optional
\* key the copied resident did not have is not in editForm
Merge(r, form) ==
    [form EXCEPT !.licensePlate = IF form.licensePlate = <<>> THEN r.licensePlate ELSE @,
                 !.expirationDate = IF form.expirationDate = <<>> THEN r.expirationDate
                                    ELSE @]

\* mutant: the save puts the form back when no grant has the id
EditUpdater_Upsert(prev, id, form) ==
    IF \E i \in DOMAIN prev : prev[i].id = id
    THEN [i \in DOMAIN prev |-> IF prev[i].id = id THEN Merge(prev[i], form) ELSE prev[i]]
    ELSE Append(prev, form)

\* prev.map(r => r.id === editingId ? { ...r, ...editForm } : r)
EditUpdater(prev, id, form) ==
    [i \in DOMAIN prev |-> IF prev[i].id = id THEN Merge(prev[i], form) ELSE prev[i]]

HandleSaveEdit ==
    /\ EditRowShown
    /\ IF editForm[1].name = "" \/ editForm[1].unit = ""
       THEN /\ swept' = <<>>
            /\ UNCHANGED <<residents, persisted, sweepPending, editingId, editForm>>
       ELSE /\ SetResidents(EditUpdater(Pending(residents), editingId[1], editForm[1]),
                            "edit")
            /\ editingId' = <<>>
            /\ editForm' = <<>>
    /\ UNCHANGED <<now, appVars, newResident, extendingId, extensionDate, deletingId,
                   storageFails, genVars, uuidCount, transport, scanVars, histVars, camVars,
                   crashed>>

\* toISOString().slice(0, 16): the datetime-local value keeps minutes
MinuteMs == 60000
LocalIso(ms) == ms - (ms % MinuteMs)

HandleExtendClick(i) ==
    /\ RowButtons(i)
    /\ extendingId' = <<residents[i].id>>
    /\ extensionDate' = <<LocalIso(IF residents[i].expirationDate # <<>>
                                   THEN residents[i].expirationDate[1] ELSE now)>>
    /\ editingId' = <<>>
    /\ swept' = <<>>
    /\ UNCHANGED <<now, appVars, residents, newResident, editForm, deletingId, diskVars,
                   sweepPending, genVars, uuidCount, transport, scanVars, histVars, camVars,
                   crashed>>

SetExtensionDate(d) ==
    /\ ExtendRowShown
    /\ extensionDate' = d
    /\ swept' = <<>>
    /\ UNCHANGED <<now, appVars, residents, newResident, editingId, editForm, extendingId,
                   deletingId, diskVars, sweepPending, genVars, uuidCount, transport,
                   scanVars, histVars, camVars, crashed>>

HandleCancelExtension ==
    /\ ExtendRowShown
    /\ extendingId' = <<>>
    /\ extensionDate' = <<>>
    /\ swept' = <<>>
    /\ UNCHANGED <<now, appVars, residents, newResident, editingId, editForm, deletingId,
                   diskVars, sweepPending, genVars, uuidCount, transport, scanVars,
                   histVars, camVars, crashed>>

\* prev.map(r => r.id === id ? { ...r, expirationDate: extensionDate || undefined } : r)
\* mutant: the save closes the row and leaves the expiration as it was
ExtendUpdater_Lost(prev, id, date) == prev

\* prev.map(r => r.id === id ? { ...r, expirationDate: extensionDate || undefined } : r)
ExtendUpdater(prev, id, date) ==
    [i \in DOMAIN prev |-> IF prev[i].id = id THEN [prev[i] EXCEPT !.expirationDate = date]
                           ELSE prev[i]]

HandleSaveExtension ==
    /\ ExtendRowShown
    /\ SetResidents(ExtendUpdater(Pending(residents), extendingId[1], extensionDate),
                    "extension")
    /\ extendingId' = <<>>
    /\ extensionDate' = <<>>
    /\ UNCHANGED <<now, appVars, newResident, editingId, editForm, deletingId, storageFails,
                   genVars, uuidCount, transport, scanVars, histVars, camVars, crashed>>

\* the delete button of a row, or of the row in edit mode
InitiateDelete(i) ==
    /\ \/ RowButtons(i)
       \/ EditRowShown /\ i \in Filtered /\ editingId = <<residents[i].id>>
    /\ LET target == FindFirst(residents, residents[i].id)
       IN  IF \/ currentUser.role \notin {"X", "B"}
              \/ currentUser.role = "B" /\ <<target.unit>> # currentUser.unit
           THEN UNCHANGED deletingId
           ELSE deletingId' = <<residents[i].id>>
    /\ swept' = <<>>
    /\ UNCHANGED <<now, appVars, residents, newResident, editingId, editForm, extendingId,
                   extensionDate, diskVars, sweepPending, genVars, uuidCount, transport,
                   scanVars, histVars, camVars, crashed>>

CancelDelete ==
    /\ Mounted("users")
    /\ ModalOpen
    /\ deletingId' = <<>>
    /\ swept' = <<>>
    /\ UNCHANGED <<now, appVars, residents, newResident, editingId, editForm, extendingId,
                   extensionDate, diskVars, sweepPending, genVars, uuidCount, transport,
                   scanVars, histVars, camVars, crashed>>

\* prev.filter(r => r.id !== deletingId)
DeleteUpdater(prev, id) == SelectSeq(prev, LAMBDA r : r.id # id)

ConfirmDelete ==
    /\ Mounted("users")
    /\ ModalOpen
    /\ SetResidents(DeleteUpdater(Pending(residents), deletingId[1]), "delete")
    /\ editingId' = IF editingId = deletingId THEN <<>> ELSE editingId
    /\ extendingId' = IF extendingId = deletingId THEN <<>> ELSE extendingId
    /\ deletingId' = <<>>
    /\ UNCHANGED <<now, appVars, newResident, editForm, extensionDate, storageFails,
                   genVars, uuidCount, transport, scanVars, histVars, camVars, crashed>>

(***************************************************************************)
(* QRGenerator                                                             *)
(***************************************************************************)
\* App: the residents prop handed to QRGenerator
TenantResidents(user) == SelectSeq(residents, LAMBDA r : r.tenantId = user.tenantId)

AvailableResidents(user) ==
    IF user.role = "B"
    THEN SelectSeq(TenantResidents(user), LAMBDA r : <<r.unit>> = user.unit)
    ELSE TenantResidents(user)

\* Array.prototype.find: the first element with that id, <<>> when there is none
FindById(list, id) ==
    LET hits == {i \in DOMAIN list : list[i].id = id}
    IN  IF hits = {} THEN <<>>
        ELSE <<list[CHOOSE i \in hits : \A j \in hits : i <= j]>>

\* the n-th identifier crypto.randomUUID() hands out
Uuid(n) == [t |-> "string", uuid |-> n]

PayloadKeys == <<"id", "tenantId", "residentName", "residentUnit", "visitorName",
                 "createdBy", "expiresAt", "generatedAt">>

Payload(uuid, user, selectedResident, finalExpiration, clock) ==
    Obj(PayloadKeys,
        [id |-> uuid,
         tenantId |-> Str(user.tenantId),
         residentName |-> Str(selectedResident.name),
         residentUnit |-> Str(selectedResident.unit),
         visitorName |-> Str("Invitado"),
         createdBy |-> Obj(<<"name", "role", "id">>,
                           [name |-> Str(user.name), role |-> Str(user.role),
                            id |-> Str(user.id)]),
         expiresAt |-> finalExpiration,
         generatedAt |-> Num(clock)])

\* mutant: the default is forgotten, an empty input stays empty
FinalExpiration_NoDefault(expiration, clock) ==
    IF expiration # <<>> THEN DateStr(expiration[1]) ELSE Str("")

\* expirationDate || new Date(Date.now() + 24 * 60 * 60 * 1000).toISOString()
FinalExpiration(expiration, clock) ==
    IF expiration # <<>> THEN DateStr(expiration[1]) ELSE DateStr(clock + DayMs)

\* mutant: one identifier is drawn for the whole batch
NewPayloads_OneId(user, selectedResident, expiration, qty, clock, issued) ==
    [i \in 1..qty |->
        Payload(Uuid(issued + 1), user, selectedResident,
                FinalExpiration(expiration, clock), clock)]

\* the payloads the loop of handleGenerate builds, one randomUUID() each
NewPayloads(user, selectedResident, expiration, qty, clock, issued) ==
    [i \in 1..qty |->
        Payload(Uuid(issued + i), user, selectedResident,
                FinalExpiration(expiration, clock), clock)]

\* the codes the loop of handleGenerate pushes
NewCodes(payloads) == [i \in DOMAIN payloads |-> JSONStringify(payloads[i])]

CanGenerate == Mounted("generate-qr") /\ currentUser.role \in {"B", "X"}

SelectResident(id) ==
    /\ CanGenerate
    /\ \/ id = ""
       \/ \E i \in DOMAIN AvailableResidents(currentUser) :
              AvailableResidents(currentUser)[i].id = id
    /\ selectedResidentId' = id
    /\ swept' = <<>>
    /\ UNCHANGED <<now, appVars, storeVars, expirationDate, quantity, generatedCodes,
                   generatedPayloads, uuidCount, transport, scanVars, histVars, camVars,
                   crashed>>

SetExpirationDate(d) ==
    /\ CanGenerate
    /\ expirationDate' = d
    /\ swept' = <<>>
    /\ UNCHANGED <<now, appVars, storeVars, selectedResidentId, quantity, generatedCodes,
                   generatedPayloads, uuidCount, transport, scanVars, histVars, camVars,
                   crashed>>

\* what parseInt(e.target.value) can give: <<>> is NaN
QuantityInputs == {<<>>, <<0>>, <<-1>>, <<2>>, <<21>>}

\* setQuantity(parseInt(e.target.value) || 1)
SetQuantity(v) ==
    /\ CanGenerate
    /\ quantity' = IF v = <<>> \/ v[1] = 0 THEN 1 ELSE v[1]
    /\ swept' = <<>>
    /\ UNCHANGED <<now, appVars, storeVars, selectedResidentId, expirationDate,
                   generatedCodes, generatedPayloads, uuidCount, transport, scanVars,
                   histVars, camVars, crashed>>

\* mutant: issuing registers the visitor as a grant of the collection
HandleGenerate_Recording ==
    /\ CanGenerate
    /\ selectedResidentId # ""
    /\ Len(residents) < MaxResidents
    /\ SetResidents(Append(residents,
           Resident(ToString(now), currentUser.tenantId, "Invitado", "101", "Visitor",
                    <<>>, expirationDate)), "add")
    /\ UNCHANGED <<now, appVars, newResident, editVars, storageFails, genVars, uuidCount,
                   transport, scanVars, histVars, camVars, crashed>>

HandleGenerate ==
    /\ CanGenerate
    /\ selectedResidentId # ""
    /\ uuidCount < MaxUuid
    /\ LET found == FindById(TenantResidents(currentUser), selectedResidentId)
           qty == IF quantity > 0 THEN quantity ELSE 0
       IN  IF found = <<>>
           THEN UNCHANGED <<generatedCodes, generatedPayloads, uuidCount>>
           ELSE /\ generatedPayloads' =
                       NewPayloads(currentUser, found[1], expirationDate, qty, now, uuidCount)
                /\ generatedCodes' = NewCodes(generatedPayloads')
                /\ uuidCount' = uuidCount + qty
    /\ swept' = <<>>
    /\ UNCHANGED <<now, appVars, storeVars, selectedResidentId, expirationDate, quantity,
                   transport, scanVars, histVars, camVars, crashed>>

\* the QR image of code index leaves the screen (handleShare, or a photo of it)
ShareCode(index) ==
    /\ CanGenerate
    /\ index \in DOMAIN generatedCodes
    /\ generatedCodes[index] \notin {x.text : x \in transport}
    /\ Cardinality(transport) < MaxShared
    /\ transport' = transport \cup {[text |-> generatedCodes[index],
                                      payload |-> generatedPayloads[index]]}
    /\ swept' = <<>>
    /\ UNCHANGED <<now, appVars, storeVars, genVars, uuidCount, scanVars, histVars,
                   camVars, crashed>>

(***************************************************************************)
(* QRValidator: the scan session                                           *)
(***************************************************************************)
CanValidate == Mounted("validate-qr") /\ currentUser.role \in {"X", "A"}

\* the <video> element exists only while the status is 'scanning'
VideoMounted == scanStatus = "scanning"

\* startScan, with at most limit calls of getUserMedia unsettled afterwards
StartScanWithin(limit) ==
    /\ CanValidate
    /\ scanStatus = "idle"
    /\ pendingAcquire < limit
    /\ scanStatus' = "scanning"
    /\ errorMsg' = NoError
    /\ scannedData' = Null
    /\ rawData' = <<>>
    /\ scanTime' = <<>>
    /\ pendingAcquire' = pendingAcquire + 1
    /\ swept' = <<>>
    /\ UNCHANGED <<now, appVars, storeVars, genVars, uuidCount, transport, histVars,
                   streamAttached, rafLoops, strayStream, crashed>>

StartScan == StartScanWithin(MaxPending)

\* getUserMedia resolves: the stream is attached and a frame loop started, if
\* videoRef.current is there; if not, nothing keeps or stops the stream
AcquireOk ==
    /\ CanValidate
    /\ pendingAcquire > 0
    /\ pendingAcquire' = pendingAcquire - 1
    /\ IF VideoMounted
       THEN /\ rafLoops < MaxLoops
            /\ streamAttached' = TRUE
            /\ rafLoops' = rafLoops + 1
            \* a stream srcObject held before is replaced, not stopped
            /\ strayStream' = (strayStream \/ streamAttached)
       ELSE /\ strayStream' = TRUE
            /\ UNCHANGED <<streamAttached, rafLoops>>
    /\ swept' = <<>>
    /\ UNCHANGED <<now, appVars, storeVars, genVars, uuidCount, transport, scanVars,
                   histVars, crashed>>

\* getUserMedia rejects: the catch block of startScan
AcquireFail ==
    /\ CanValidate
    /\ pendingAcquire > 0
    /\ pendingAcquire' = pendingAcquire - 1
    /\ errorMsg' = AcquisitionFailed
    /\ scanStatus' = "invalid"
    /\ rawData' = <<>>
    /\ scanTime' = <<>>
    \* the <video> element goes with the status, whatever it held
    /\ streamAttached' = FALSE
    /\ strayStream' = (strayStream \/ streamAttached)
    /\ swept' = <<>>
    /\ UNCHANGED <<now, appVars, storeVars, genVars, uuidCount, transport, scannedData,
                   histVars, rafLoops, crashed>>

\* mutant: tick hands the code to validateQR without calling stopCamera
StopCamera_Skipped(requests) == UNCHANGED <<rafLoops, streamAttached>>

\* stopCamera: cancels the frame request held in requestRef, one of the
\* requests that are outstanding, and stops the stream of the <video>
\* element, if there is one
StopCamera(requests) ==
    /\ rafLoops' = IF requests > 0 THEN requests - 1 ELSE 0
    /\ streamAttached' = FALSE

\* a frame loop can read a frame
CanTick == CanValidate /\ rafLoops > 0 /\ VideoMounted /\ streamAttached

\* tick: the frame holds no code, the next frame is requested
TickNoCode ==
    /\ CanTick
    /\ UNCHANGED vars

\* tick: jsQR finds a code whose text is text; stopCamera, then validateQR
DetectCode(text) ==
    /\ CanTick
    /\ LET out == ValidateQR(text, currentUser.tenantId, now, <<scannedData, errorMsg>>)
       IN  /\ scanStatus' = out.status
           /\ scannedData' = out.data
           /\ errorMsg' = out.msg
           /\ crashed' = (out.status = "valid" /\ RenderThrows(out.data))
           /\ accepted' = IF out.status = "valid" THEN accepted \cup {text} ELSE accepted
    /\ Cardinality(accepted') <= MaxAccepted
    /\ reused' = (text \in accepted)
    /\ rawData' = <<text>>
    /\ scanTime' = <<now>>
    \* the request of the running tick has fired, and tick returns without
    \* asking for another frame; requestRef holds the newest loop's request
    /\ StopCamera(rafLoops - 1)
    /\ swept' = <<>>
    /\ UNCHANGED <<now, appVars, storeVars, genVars, uuidCount, transport, pendingAcquire,
                   strayStream>>

ResetScanner ==
    /\ CanValidate
    /\ scanStatus # "idle"
    /\ StopCamera(rafLoops)
    /\ scanStatus' = "idle"
    /\ scannedData' = Null
    /\ errorMsg' = NoError
    /\ rawData' = <<>>
    /\ scanTime' = <<>>
    /\ swept' = <<>>
    /\ UNCHANGED <<now, appVars, storeVars, genVars, uuidCount, transport, histVars,
                   pendingAcquire, strayStream, crashed>>

(***************************************************************************)
(* What a camera can be shown: issued codes, and texts anyone can write.   *)
(***************************************************************************)
CreatedByDoc == Members(<< <<"name", Str("Eva")>>, <<"role", Str("X")>>, <<"id", Str("u9")>> >>)

\* a complete credential text of tenant, expiring at expiresAt
CredentialDoc(tenant, expiresAt) ==
    << <<"id", Str("c-1")>>, <<"tenantId", tenant>>, <<"residentName", Str("Juan Perez")>>,
       <<"residentUnit", Str("101")>>, <<"visitorName", Str("Invitado")>>,
       <<"createdBy", CreatedByDoc>>, <<"expiresAt", expiresAt>>,
       <<"generatedAt", Num(T0)>> >>

Without(m, key) == SelectSeq(m, LAMBDA p : p[1] # key)
With(m, key, doc) == [i \in DOMAIN m |-> IF m[i][1] = key THEN <<key, doc>> ELSE m[i]]

Credential(tenant, expiresAt) == JsonText(Members(CredentialDoc(tenant, expiresAt)))
Lacking(tenant, expiresAt, key) ==
    JsonText(Members(Without(CredentialDoc(tenant, expiresAt), key)))

SoonMs == T0 + 1
LaterMs == T0 + DayMs

ScanInputs ==
    {NotJson("not-json"), JsonText(Null), JsonText(Num(5)), JsonText(Str("t1"))}
    \cup {Credential(Str(tn), DateStr(ms)) : tn \in {"t1", "t2"}, ms \in {SoonMs, LaterMs}}
    \cup {Lacking(Str(tn), DateStr(SoonMs), key) :
              tn \in {"t1", "t2"}, key \in {"tenantId", "expiresAt", "visitorName"}}
    \cup {Lacking(Str("t1"), DateStr(SoonMs), key) :
              key \in {"id", "residentName", "createdBy", "generatedAt"}}
    \cup {Credential(Str("t1"), Str("garbage")), Credential(Str("t2"), Str("garbage")),
          Credential(Str("t1"), Num(SoonMs)), Credential(Num(1), DateStr(SoonMs)),
          JsonText(Members(With(CredentialDoc(Str("t1"), DateStr(SoonMs)),
                                "visitorName", Str(""))))}

(***************************************************************************)
(* Specifications                                                          *)
(***************************************************************************)
Init ==
    /\ now = T0
    /\ currentUser = NoUser
    /\ activeTab = "dashboard"
    /\ residents = INITIAL_RESIDENTS
    /\ newResident = FormInit(NoUser)
    /\ editingId = <<>>
    /\ editForm = <<>>
    /\ extendingId = <<>>
    /\ extensionDate = <<>>
    /\ deletingId = <<>>
    /\ persisted = <<StoreItem(INITIAL_RESIDENTS)>>
    /\ storageFails = FALSE
    /\ sweepPending = FALSE
    /\ selectedResidentId = ""
    /\ expirationDate = <<>>
    /\ quantity = 1
    /\ generatedCodes = <<>>
    /\ generatedPayloads = <<>>
    /\ uuidCount = 0
    /\ transport = {}
    /\ scanStatus = "idle"
    /\ scannedData = Null
    /\ errorMsg = NoError
    /\ pendingAcquire = 0
    /\ streamAttached = FALSE
    /\ rafLoops = 0
    /\ strayStream = FALSE
    /\ rawData = <<>>
    /\ scanTime = <<>>
    /\ accepted = {}
    /\ reused = FALSE
    /\ swept = <<>>
    /\ crashed = FALSE

\* collections an earlier session can have left in localStorage: with grants
\* that expire, and with grants of a second tenant
WithVisits ==
    INITIAL_RESIDENTS
        \o << Resident("5", "t1", "Visita", "101", "Visitor", <<>>, <<T0 + DayMs>>),
              Resident("6", "t1", "Envio", "202", "Delivery", <<>>, <<T0 + 1>>) >>

StoredLists ==
    {INITIAL_RESIDENTS,
     WithVisits,
     << Resident("7", "t2", "Vecino", "101", "Resident", <<>>, <<>>),
        Resident("8", "t1", "Visita", "101", "Visitor", <<>>, <<T0 + 1>>),
        Resident("9", "t2", "Envio", "202", "Delivery", <<>>, <<T0 + DayMs + 1>>) >>}

\* the page is opened on a browser whose localStorage holds list
InitWith(list) ==
    /\ now = T0
    /\ currentUser = NoUser
    /\ activeTab = "dashboard"
    /\ residents = CheckExpiration(StoredValue(<<StoreItem(list)>>, INITIAL_RESIDENTS), now)
    /\ persisted = <<StoreItem(residents)>>
    /\ newResident = FormInit(NoUser)
    /\ editingId = <<>>
    /\ editForm = <<>>
    /\ extendingId = <<>>
    /\ extensionDate = <<>>
    /\ deletingId = <<>>
    /\ storageFails = FALSE
    /\ sweepPending = FALSE
    /\ selectedResidentId = ""
    /\ expirationDate = <<>>
    /\ quantity = 1
    /\ generatedCodes = <<>>
    /\ generatedPayloads = <<>>
    /\ uuidCount = 0
    /\ transport = {}
    /\ scanStatus = "idle"
    /\ scannedData = Null
    /\ errorMsg = NoError
    /\ pendingAcquire = 0
    /\ streamAttached = FALSE
    /\ rafLoops = 0
    /\ strayStream = FALSE
    /\ rawData = <<>>
    /\ scanTime = <<>>
    /\ accepted = {}
    /\ reused = FALSE
    /\ swept = <<>>
    /\ crashed = FALSE

InitStored == \E list \in StoredLists : InitWith(list)

Login == \E i \in DOMAIN MOCK_USERS : HandleLogin(MOCK_USERS[i])

Navigate == \E tab \in Tabs : TabChange(tab)

Scanner ==
    \/ StartScan
    \/ AcquireOk
    \/ AcquireFail
    \/ TickNoCode
    \/ ResetScanner

ChooseHost ==
    \E id \in {""} \cup {residents[i].id : i \in DOMAIN residents} : SelectResident(id)

ChooseExpiration ==
    \E d \in {<<>>} \cup {<<ms>> : ms \in DateInputs} : SetExpirationDate(d)

Share == \E index \in DOMAIN generatedCodes : ShareCode(index)

\* issuance, transport and validation: the resident u3 issues codes for one
\* host, the guard u2 is shown them
Next ==
    \/ \E i \in {2, 3} : HandleLogin(MOCK_USERS[i])
    \/ HandleLogout
    \/ \E tab \in {"generate-qr", "validate-qr"} : TabChange(tab)
    \/ Tick
    \/ SelectResident("1")
    \/ SetQuantity(<<2>>)
    \/ HandleGenerate
    \/ Share
    \/ StartScan
    \/ AcquireOk
    \/ ResetScanner
    \/ \E x \in transport : DetectCode(x.text)

Spec == Init /\ [][Next]_vars

\* the checkpoint: the camera is shown any text
NextScan ==
    \/ Login
    \/ HandleLogout
    \/ Navigate
    \/ Tick
    \/ Scanner
    \/ \E text \in ScanInputs : DetectCode(text)

SpecScan == Init /\ [][NextScan]_vars

\* the generator over the initial residents, every input of its form
NextIssue ==
    \/ Login
    \/ HandleLogout
    \/ Navigate
    \/ Tick
    \/ ChooseHost
    \/ ChooseExpiration
    \/ \E v \in QuantityInputs : SetQuantity(v)
    \/ HandleGenerate

SpecIssue == Init /\ [][NextIssue]_vars

\* residents are added, then chosen as hosts
NextHost ==
    \/ Login
    \/ HandleLogout
    \/ \E tab \in {"users", "generate-qr"} : TabChange(tab)
    \/ Tick
    \/ \E n \in NameInputs : SetNewName(n)
    \/ \E u \in UnitInputs : SetNewUnit(u)
    \/ HandleAdd
    \/ ChooseHost
    \/ HandleGenerate

SpecHost == Init /\ [][NextHost]_vars

ExpirationInputs == {<<>>} \cup {<<ms>> : ms \in DateInputs}

AddForm ==
    \/ \E n \in NameInputs : SetNewName(n)
    \/ \E u \in UnitInputs : SetNewUnit(u)
    \/ \E d \in ExpirationInputs : SetNewExpiration(d)
    \/ HandleAdd

EditRow ==
    \/ \E i \in DOMAIN residents : HandleEditClick(i)
    \/ \E n \in EditNameInputs : SetEditName(n)
    \/ \E u \in UnitInputs : SetEditUnit(u)
    \/ HandleCancelEdit
    \/ HandleSaveEdit

ExtendRow ==
    \/ \E i \in DOMAIN residents : HandleExtendClick(i)
    \/ \E d \in ExpirationInputs : SetExtensionDate(d)
    \/ HandleCancelExtension
    \/ HandleSaveExtension

DeleteRow ==
    \/ \E i \in DOMAIN residents : InitiateDelete(i)
    \/ CancelDelete
    \/ ConfirmDelete

\* the sweeper: the resident u3 adds grants that expire or do not, the clock
\* advances, the interval of App fires, the page is loaded again
NextSweep ==
    \/ HandleLogin(MOCK_USERS[3])
    \/ TabChange("users")
    \/ Tick
    \/ Sweep
    \/ Reload
    \/ \E n \in NameInputs : SetNewName(n)
    \/ \E d \in ExpirationInputs : SetNewExpiration(d)
    \/ HandleAdd

SpecSweep == Init /\ [][NextSweep]_vars

\* the row behind those of INITIAL_RESIDENTS
RowBehind == {i \in DOMAIN residents : i = Len(INITIAL_RESIDENTS) + 1}

\* the resident u3 adds grants and edits, extends and deletes the one behind the
\* initial ones while the interval fires
NextWrites ==
    \/ HandleLogin(MOCK_USERS[3])
    \/ TabChange("users")
    \/ Tick
    \/ SweepFires
    \/ Sweep
    \/ SetNewName("Ana")
    \/ HandleAdd
    \/ \E i \in RowBehind : HandleEditClick(i)
    \/ SetEditName("Eva")
    \/ HandleSaveEdit
    \/ \E i \in RowBehind : HandleExtendClick(i)
    \/ HandleSaveExtension
    \/ \E i \in RowBehind : InitiateDelete(i)
    \/ ConfirmDelete

SpecWrites == InitWith(WithVisits) /\ [][NextWrites]_vars

\* the rows of the grants added since the page was opened
AddedRows == {i \in DOMAIN residents : i > Len(INITIAL_RESIDENTS)}

\* every role in UserManagement: grants are added, and those added are edited
\* and deleted
NextManage ==
    \/ Login
    \/ HandleLogout
    \/ TabChange("users")
    \/ Tick
    \/ SetNewName("Ana")
    \/ SetNewUnit("202")
    \/ HandleAdd
    \/ \E i \in AddedRows : HandleEditClick(i)
    \/ SetEditName("Eva")
    \/ HandleSaveEdit
    \/ \E i \in AddedRows : InitiateDelete(i)
    \/ ConfirmDelete

SpecManage == Init /\ [][NextManage]_vars

\* a store an earlier session left, under every user: the list, its delete
\* button, the host select of the generator
NextTenant ==
    \/ Login
    \/ HandleLogout
    \/ \E tab \in {"users", "generate-qr"} : TabChange(tab)
    \/ DeleteRow
    \/ ChooseHost

SpecTenant == InitStored /\ [][NextTenant]_vars

\* grants are deleted and swept, localStorage takes the writes or refuses them,
\* the page is loaded again
NextReload ==
    \/ HandleLogin(MOCK_USERS[1])
    \/ TabChange("users")
    \/ Tick
    \/ Sweep
    \/ \E i \in AddedRows : InitiateDelete(i)
    \/ CancelDelete
    \/ ConfirmDelete
    \/ StorageChange
    \/ Reload

SpecReload == InitWith(WithVisits) /\ [][NextReload]_vars

\* the checkpoint's scanner when the browser is slow to settle getUserMedia:
\* a start can be cancelled and repeated while the first call is unsettled
CameraInputs ==
    {NotJson("not-json"), Credential(Str("t1"), DateStr(LaterMs)),
     Credential(Str("t2"), DateStr(LaterMs)), Credential(Str("t1"), DateStr(SoonMs))}

NextCamera ==
    \/ HandleLogin(MOCK_USERS[2])
    \/ TabChange("validate-qr")
    \/ Tick
    \/ StartScanWithin(MaxPending + 1)
    \/ AcquireOk
    \/ AcquireFail
    \/ TickNoCode
    \/ ResetScanner
    \/ \E text \in CameraInputs : DetectCode(text)

SpecCamera == Init /\ [][NextCamera]_vars

\* the manager u1 extends or clears the expiration of the visitor grants while
\* the clock passes their expirations and the interval fires
ExtensionInputs == {<<>>, <<LaterMs + 1>>}

NextExtend ==
    \/ HandleLogin(MOCK_USERS[1])
    \/ TabChange("users")
    \/ Tick
    \/ SweepFires
    \/ Sweep
    \/ \E i \in AddedRows : HandleExtendClick(i)
    \/ \E d \in ExtensionInputs : SetExtensionDate(d)
    \/ HandleCancelExtension
    \/ HandleSaveExtension

SpecExtend == InitWith(WithVisits) /\ [][NextExtend]_vars

\* codes are issued, shown and validated over a collection that the interval
\* sweeps
NextUntouched ==
    \/ \E i \in {2, 3} : HandleLogin(MOCK_USERS[i])
    \/ HandleLogout
    \/ \E tab \in {"generate-qr", "validate-qr"} : TabChange(tab)
    \/ Tick
    \/ Sweep
    \/ SelectResident("1")
    \/ HandleGenerate
    \/ Share
    \/ StartScan
    \/ AcquireOk
    \/ ResetScanner
    \/ \E x \in transport : DetectCode(x.text)

SpecUntouched == InitWith(WithVisits) /\ [][NextUntouched]_vars

\* the interval while a render of the "valid" panel can throw, which makes
\* React unmount App and run the cleanup of its effects
StopInputs ==
    {Credential(Str("t1"), DateStr(LaterMs + DayMs)),
     Lacking(Str("t1"), DateStr(LaterMs + DayMs), "createdBy")}

NextStop ==
    \/ HandleLogin(MOCK_USERS[2])
    \/ TabChange("validate-qr")
    \/ Tick
    \/ Sweep
    \/ StartScan
    \/ AcquireOk
    \/ ResetScanner
    \/ \E text \in StopInputs : DetectCode(text)
    \/ Reload

SpecStop == InitWith(WithVisits) /\ [][NextStop]_vars

\* a store with expiring grants, left to the clock, the interval and page loads
NextEvict ==
    \/ Login
    \/ HandleLogout
    \/ Tick
    \/ Sweep
    \/ Reload

\* setInterval(checkExpiration, 10000) is cleared only when App unmounts: while
\* the page is open the callback keeps being called
SpecEvict == InitStored /\ [][NextEvict]_vars /\ WF_vars(Sweep)

\* the same, with a localStorage that refuses writes for a while
NextRetry ==
    \/ NextEvict
    \/ StorageChange

SpecRetry == InitStored /\ [][NextRetry]_vars /\ WF_vars(Sweep)

(***************************************************************************)
(* Properties.  They read a scanned text as it is written, member by       *)
(* member, not through JSON.parse.                                         *)
(***************************************************************************)
IsObjectText(text) == text.kind = "json" /\ text.doc.t = "object"

HasMember(text, key) ==
    IsObjectText(text) /\ \E i \in DOMAIN text.doc.m : text.doc.m[i][1] = key

\* the document written for key (texts here write a key at most once)
Member(text, key) ==
    LET m == text.doc.m
    IN  m[CHOOSE i \in DOMAIN m : m[i][1] = key][2]

IsText(doc) == doc.t = "string" /\ doc # Str("")
IsInstant(doc) == doc.t = "string" /\ "date" \in DOMAIN doc

\* a structurally complete Credential: every field present and of its type
IsCredential(text) ==
    /\ \A i \in DOMAIN PayloadKeys : HasMember(text, PayloadKeys[i])
    /\ IsText(Member(text, "id"))
    /\ IsText(Member(text, "tenantId"))
    /\ IsText(Member(text, "visitorName"))
    /\ Member(text, "residentName").t = "string"
    /\ Member(text, "residentUnit").t = "string"
    /\ IsInstant(Member(text, "expiresAt"))
    /\ Member(text, "generatedAt").t = "number"
    /\ Member(text, "createdBy").t = "object"
    /\ \A k \in {"name", "role", "id"} :
           \E i \in DOMAIN Member(text, "createdBy").m :
               /\ Member(text, "createdBy").m[i][1] = k
               /\ Member(text, "createdBy").m[i][2].t = "string"

\* the validator shows what validateQR left for the text Scanned
HasScanned == rawData # <<>>
Scanned == rawData[1]
ScannedAt == scanTime[1]
ValidatorTenant == Str(currentUser.tenantId)

ExpiresAtMs(text) == Member(text, "expiresAt").date

\* C1 Tenant isolation: a complete credential of another tenant is rejected
\* with TenantMismatch(its tenantId) at every clock reading, expired or not;
\* it is never reported Expired and never accepted.
TenantIsolation ==
    (HasScanned /\ IsCredential(Scanned) /\ Member(Scanned, "tenantId") # ValidatorTenant)
    => /\ scanStatus = "invalid"
       /\ errorMsg = TenantMismatch(Member(Scanned, "tenantId"))
       /\ scannedData = Null

\* a foreign credential, scanned after its expiry, reported as TenantMismatch
TenantIsolationWitness ==
    /\ HasScanned
    /\ IsCredential(Scanned)
    /\ Member(Scanned, "tenantId") # ValidatorTenant
    /\ ExpiresAtMs(Scanned) < ScannedAt
    /\ errorMsg.kind = "TenantMismatch"

\* C2 Expiry boundary: a complete credential of the validator's tenant is
\* accepted if and only if now < expiresAt; at now = expiresAt and later it is
\* rejected as Expired(expiresAt).
ExpiryBoundary ==
    (HasScanned /\ IsCredential(Scanned) /\ Member(Scanned, "tenantId") = ValidatorTenant)
    => /\ (scanStatus = "valid") <=> (ScannedAt < ExpiresAtMs(Scanned))
       /\ ScannedAt >= ExpiresAtMs(Scanned)
              => scanStatus = "invalid" /\ errorMsg = Expired(<<ExpiresAtMs(Scanned)>>)

\* the value written lacks one of the three fields validateQR asks for
LacksRequired(text) ==
    text.kind = "json" /\ \E key \in {"tenantId", "expiresAt", "visitorName"} :
                              ~HasMember(text, key)

\* C3 Malformed payloads: a text that is not JSON, or whose value lacks
\* tenantId, expiresAt or visitorName, is rejected as MalformedPayload, whatever
\* tenant it names, and nothing is thrown past validateQR.
MalformedRejected ==
    (HasScanned /\ (Scanned.kind # "json" \/ LacksRequired(Scanned)))
    => /\ scanStatus = "invalid"
       /\ errorMsg = MalformedPayload
       /\ scannedData = Null
       /\ ~crashed

\* a text of another tenant, otherwise valid, that lacks visitorName only
MalformedRejectedWitness ==
    /\ HasScanned
    /\ IsObjectText(Scanned)
    /\ ~HasMember(Scanned, "visitorName")
    /\ HasMember(Scanned, "tenantId")
    /\ HasMember(Scanned, "expiresAt")
    /\ Member(Scanned, "tenantId") # ValidatorTenant
    /\ errorMsg = MalformedPayload

\* C4 Incomplete credentials: a text of the validator's tenant that is not a
\* structurally complete Credential (expiresAt not a timestamp, or another
\* required key missing) is rejected as MalformedPayload and never accepted.
IncompleteRejected ==
    (/\ HasScanned
     /\ HasMember(Scanned, "tenantId")
     /\ Member(Scanned, "tenantId") = ValidatorTenant
     /\ ~IsCredential(Scanned))
    => scanStatus = "invalid" /\ errorMsg = MalformedPayload

\* C5 Reuse: a complete credential of the validator's tenant scanned before
\* its expiry is accepted, carrying its own fields, whatever was scanned
\* before: also when the same text was accepted before.
ReusableUntilExpiry ==
    (/\ HasScanned
     /\ IsCredential(Scanned)
     /\ Member(Scanned, "tenantId") = ValidatorTenant
     /\ ScannedAt < ExpiresAtMs(Scanned))
    => /\ scanStatus = "valid"
       /\ errorMsg = NoError
       /\ Prop(scannedData, "id") = Member(Scanned, "id")
       /\ Prop(scannedData, "expiresAt") = Member(Scanned, "expiresAt")

\* a credential accepted once is accepted again
ReusableUntilExpiryWitness ==
    /\ HasScanned
    /\ reused
    /\ IsCredential(Scanned)
    /\ scanStatus = "valid"

\* an issuance has just happened: handleGenerate drew identifiers
Issues == uuidCount' # uuidCount

\* the resident the select names (ids of the initial residents are unique)
HostGrants == {residents[i] : i \in {j \in DOMAIN residents :
                                         residents[j].id = selectedResidentId}}

\* codes is a batch of count credentials of user for host
BatchOf(codes, count, user, host) ==
    /\ Len(codes) = count
    /\ \A i, j \in DOMAIN codes :
           /\ IsCredential(codes[i])
           /\ i # j => Member(codes[i], "id") # Member(codes[j], "id")
           /\ Member(codes[i], "tenantId") = Str(user.tenantId)
           /\ Member(codes[i], "residentName") = Str(host.name)
           /\ Member(codes[i], "residentUnit") = Str(host.unit)
           /\ Member(codes[i], "expiresAt") = Member(codes[j], "expiresAt")

\* C6 Issuance batch: with count in 1..20, handleGenerate yields exactly count
\* codes with pairwise distinct ids, all with the issuer's tenantId, the name
\* and unit of the chosen host, and one expiresAt.
IssuanceBatch ==
    [][(Issues /\ quantity \in 1..MaxQuantity)
        => \E host \in HostGrants : BatchOf(generatedCodes', quantity, currentUser, host)]_vars

\* a batch of two codes with two ids is on screen
IssuanceBatchWitness ==
    /\ Len(generatedCodes) = 2
    /\ Member(generatedCodes[1], "id") # Member(generatedCodes[2], "id")
    /\ Member(generatedCodes[1], "tenantId") = Member(generatedCodes[2], "tenantId")

\* C7 expiresAt is always present on an issued credential: the input when one
\* was given, the issuance time plus 24 hours when none was; never absent or
\* empty.
ExpiresAtPresent ==
    [][Issues => \A i \in DOMAIN generatedCodes' :
            /\ HasMember(generatedCodes'[i], "expiresAt")
            /\ Member(generatedCodes'[i], "expiresAt") =
                   IF expirationDate = <<>> THEN DateStr(now + DayMs)
                   ELSE DateStr(expirationDate[1])]_vars

\* a code issued with no expiry given carries its issuance time plus a day
ExpiresAtPresentWitness ==
    \E i \in DOMAIN generatedCodes :
        /\ IsInstant(Member(generatedCodes[i], "expiresAt"))
        /\ ExpiresAtMs(generatedCodes[i]) = Member(generatedCodes[i], "generatedAt").n + DayMs

\* C8 Quantity bound: no issuance yields more than 20 credentials, and none
\* yields any when the count is below 1 or above 20.
QuantityBound ==
    [][/\ Len(generatedCodes') <= MaxQuantity
       /\ (Issues /\ quantity \notin 1..MaxQuantity) => generatedCodes' = <<>>]_vars

\* C9 Issuance permission: every credential a role-B user issues names a host
\* grant of that user's own tenant and own unit.
HostPermission ==
    \A i \in DOMAIN generatedCodes :
        currentUser.role = "B"
        => /\ Member(generatedCodes[i], "tenantId") = Str(currentUser.tenantId)
           /\ <<Member(generatedCodes[i], "residentUnit").s>> = currentUser.unit

\* C10 Round trip: decoding the text of an issued credential gives back the
\* credential field for field, so that scanning it at the issuer's tenant
\* before its expiry is accepted and shows exactly that credential.
RoundTrip ==
    /\ \A i \in DOMAIN generatedCodes : JSONParse(generatedCodes[i]) = generatedPayloads[i]
    /\ \A x \in transport :
           /\ JSONParse(x.text) = x.payload
           /\ (/\ HasScanned
               /\ Scanned = x.text
               /\ Prop(x.payload, "tenantId") = ValidatorTenant
               /\ ScannedAt < Prop(x.payload, "expiresAt").date)
              => scanStatus = "valid" /\ scannedData = x.payload

\* an issued credential was scanned and is shown as it was issued
RoundTripWitness ==
    /\ HasScanned
    /\ scanStatus = "valid"
    /\ \E x \in transport : Scanned = x.text /\ scannedData = x.payload

\* a grant that a sweep at clock has to keep
Unexpired(r, clock) == r.expirationDate = <<>> \/ r.expirationDate[1] > clock

\* C11 Sweep correctness: a sweep leaves exactly the grants of the store it found
\* whose expiration is unset or later than the clock, in their order and with
\* their fields; a grant that expires at the clock reading is removed, one
\* without expiration never is.
SweepCorrect ==
    [][Sweep => residents' = SelectSeq(residents, LAMBDA r : Unexpired(r, now))]_vars

\* a sweep has just removed a grant at the instant it expires and kept the
\* grants behind it
SweepCorrectWitness ==
    /\ swept # <<>>
    /\ swept[1].at = now
    /\ \E i \in DOMAIN swept[1].dropped : swept[1].dropped[i].expirationDate = <<now>>
    /\ Len(residents) > Len(INITIAL_RESIDENTS)
    /\ \A i \in DOMAIN residents : Unexpired(residents[i], now)

\* C12 Sweep idempotence: a second sweep at the clock reading of the first, with
\* no write to the store in between, removes nothing and leaves the store as
\* the first sweep left it.
SweepIdempotent ==
    [][Sweep => /\ Dropped(residents', now) = <<>>
                /\ CheckExpiration(residents', now) = residents']_vars

\* a sweep has just removed two grants at once; the next one finds nothing
SweepIdempotentWitness ==
    /\ swept # <<>>
    /\ swept[1].at = now
    /\ Len(swept[1].dropped) >= 2
    /\ CheckExpiration(residents, now) = residents

\* the store holds a grant whose expiration has been reached
ExpiredInStore == \E i \in DOMAIN residents : ~Unexpired(residents[i], now)

\* C13 Eventual eviction: while the interval runs, whenever the store holds
\* grants whose expiration has been reached, a state follows in which it holds
\* none (the clock does not go back: every such grant has been removed or
\* changed by then); and the store a page load leaves holds none.
EventualEviction ==
    /\ ExpiredInStore ~> ~ExpiredInStore
    /\ [][Reload => \A i \in DOMAIN residents' : Unexpired(residents'[i], now')]_vars

\* a page load has just removed a grant that expired before it
EventualEvictionWitness ==
    /\ swept # <<>>
    /\ swept[1].at = now
    /\ swept[1].by = "mount"
    /\ \E i \in DOMAIN swept[1].dropped : swept[1].dropped[i].expirationDate[1] < now
    /\ \A i \in DOMAIN residents : Unexpired(residents[i], now)

\* what a sweep at the clock reading keeps of the store
Kept == SelectSeq(residents, LAMBDA r : Unexpired(r, now))

\* C14 Write serialization: a write of UserManagement (add, edit, extend, delete)
\* issued while an update of the sweeper is queued leaves the store the write
\* yields when applied to the swept store: neither update is lost, an added
\* grant is there, and no expired grant is left behind by the purge.
WriteSerialized ==
    [][sweepPending =>
         /\ HandleAdd /\ residents' # residents =>
                /\ SubSeq(residents', 1, Len(residents') - 1) = Kept
                /\ residents'[Len(residents')].id = ToString(now)
                /\ residents'[Len(residents')].name = newResident.name
         /\ HandleSaveEdit /\ editingId' = <<>> =>
                residents' = EditUpdater(Kept, editingId[1], editForm[1])
         /\ HandleSaveExtension =>
                residents' = ExtendUpdater(Kept, extendingId[1], extensionDate)
         /\ ConfirmDelete =>
                residents' = DeleteUpdater(Kept, deletingId[1])
         /\ Sweep => residents' = Kept]_vars

\* a write has just been applied together with a queued sweep that dropped a
\* grant, and the store shows both
WriteSerializedWitness ==
    /\ swept # <<>>
    /\ swept[1].by = "add"
    /\ swept[1].dropped # <<>>
    /\ residents = Kept
    /\ \E i \in DOMAIN residents : residents[i].id = ToString(now)

\* the status changes the session is allowed: <<from, to>>
SessionTransitions ==
    {<<"idle", "scanning">>, <<"scanning", "valid">>, <<"scanning", "invalid">>,
     <<"scanning", "idle">>, <<"valid", "idle">>, <<"invalid", "idle">>}

\* C15 ScanSession transition relation: the status changes only along
\* Idle->Scanning (start), Scanning->Accepted, Scanning->Rejected, Scanning->Idle
\* (cancel) and Accepted/Rejected->Idle (reset); Idle is left only by a start.
ScanTransitions ==
    [][scanStatus' # scanStatus =>
          /\ <<scanStatus, scanStatus'>> \in SessionTransitions
          /\ scanStatus = "idle" => StartScan]_vars

\* C16 Acquisition failure: a start whose camera acquisition fails ends in
\* Rejected(AcquisitionFailed) without the status Scanning having been entered:
\* the failure is never reported to a session that is in Scanning.
FailureSkipsScanning ==
    [][errorMsg' = AcquisitionFailed /\ errorMsg # AcquisitionFailed =>
          scanStatus # "scanning"]_vars

\* C17 Frame-source release: whenever the session is in Idle, Accepted or
\* Rejected (also after the component is gone) no camera stream is open,
\* attached or not, and no frame loop is scheduled.
SourceReleased ==
    scanStatus \in {"idle", "valid", "invalid"} =>
        /\ ~streamAttached
        /\ ~strayStream
        /\ rafLoops = 0

\* the grants a step took out of the store or changed, and those it put in
Gone == {residents[i] : i \in DOMAIN residents} \ {residents'[i] : i \in DOMAIN residents'}
Put == {residents'[i] : i \in DOMAIN residents'} \ {residents[i] : i \in DOMAIN residents}

\* C18 Grant mutation permission: a step of a user that changes the store is
\* made by a role-X user, or by a role-B user and every grant it removes,
\* changes or creates is of that user's unit, a created one of that user's
\* tenant; a role-A user changes nothing.
MutationPermission ==
    [][residents' # residents /\ ~Sweep /\ ~Reload =>
          /\ currentUser # NoUser
          /\ currentUser.role \in {"X", "B"}
          /\ currentUser.role = "B" =>
                 /\ \A r \in Gone \cup Put : <<r.unit>> = currentUser.unit
                 /\ \A r \in Put : r.tenantId = currentUser.tenantId]_vars

\* the grants the mounted view shows the user
Listed ==
    IF Mounted("users") THEN {residents[i] : i \in Filtered}
    ELSE IF Mounted("generate-qr") /\ CanGenerate
         THEN {AvailableResidents(currentUser)[i] :
                   i \in DOMAIN AvailableResidents(currentUser)}
         ELSE {}

\* C19 Tenant-scoped store access: whatever tenants the store spans, every
\* grant a view lists for the logged-in user (to read, edit, extend, delete or
\* select as host) is of that user's tenant.
TenantScoped == \A r \in Listed : r.tenantId = currentUser.tenantId

\* C20 Deletion survives reload: the collection a page load reads from
\* localStorage is the last collection the application held, so a load brings
\* back no grant that a delete or a sweep had removed.
DeletionSurvives == [][Reload => Put = {}]_vars

\* C21 Validation outcome: the session is Accepted exactly when a decoded
\* credential is held, and then without a reason; a Rejected session carries a
\* reason and no credential; Idle and Scanning carry neither.
OutcomeUnambiguous ==
    /\ scanStatus = "valid" <=> scannedData # Null
    /\ scanStatus = "valid" => errorMsg = NoError
    /\ scanStatus = "invalid" => errorMsg # NoError /\ scannedData = Null
    /\ scanStatus \in {"idle", "scanning"} => errorMsg = NoError /\ scannedData = Null

\* localStorage does not hold the collection that is in memory
Stale == persisted # <<StoreItem(residents)>>

\* C22 Sweeper persistence failure: the interval keeps running after a write
\* that localStorage refused, and once localStorage takes writes again the
\* stored collection comes to equal the collection in memory, whether or not
\* another grant expires.
WriteRetried == (~storageFails /\ Stale) ~> (storageFails \/ ~Stale)

\* C23 Sweep no-op: a run of the interval's sweep that finds no grant whose
\* expiration has been reached keeps the collection and writes nothing to
\* localStorage, also when localStorage holds something else.
SweepNoOp ==
    [][Sweep /\ Dropped(residents, now) = <<>>
          => residents' = residents /\ persisted' = persisted]_vars

\* the interval has just run with nothing to remove while localStorage, which
\* takes writes, holds an older collection
SweepNoOpWitness ==
    /\ swept # <<>>
    /\ swept[1].by = "interval"
    /\ swept[1].at = now
    /\ swept[1].dropped = <<>>
    /\ ~storageFails
    /\ Stale

Detection == \E text \in CameraInputs : DetectCode(text)

IdsUnique ==
    \A i, j \in DOMAIN residents : i # j => residents[i].id # residents[j].id

\* the edit row or the extension row is saved
SaveStep == HandleSaveEdit \/ HandleSaveExtension

\* the rows a step changes
Changed == {i \in DOMAIN residents : i \in DOMAIN residents' /\ residents'[i] # residents[i]}

\* C26 Grant identity is stable: a save of the edit row or of the extension
\* row that removes nothing keeps the id and the tenantId of every grant, and
\* changes one grant at most, the one that was opened.
IdentityStable ==
    [][SaveStep /\ Len(residents') = Len(residents)
          => /\ \A i \in DOMAIN residents :
                    /\ residents'[i].id = residents[i].id
                    /\ residents'[i].tenantId = residents[i].tenantId
             /\ Cardinality(Changed) <= 1]_vars

\* C28 Issuance and validation leave the store untouched: the collection and
\* the item of localStorage change only in a step of the sweeper; no step of
\* the generator or of the validator (select, generate, share, start, acquire,
\* detect and validate, cancel, reset) changes either.
StoreUntouched ==
    [][residents' # residents \/ persisted' # persisted => Sweep]_vars

\* a code that was issued and shared has been accepted at the checkpoint
StoreUntouchedWitness ==
    /\ transport # {}
    /\ scanStatus = "valid"
    /\ rawData \in {<<x.text>> : x \in transport}
    /\ swept = <<>>

\* no grant of the collection the save is applied to has the id
Removed(id) == \A i \in DOMAIN Pending(residents) : Pending(residents)[i].id # id

\* C29 No resurrection by a stale editor: a save of the edit row or of the
\* extension row whose grant is no longer in the collection the save is applied
\* to (a queued sweep removes it) leaves that collection as it is, the grant
\* is not put back; and the edit row and the extension row are never both open.
NoResurrection ==
    /\ [][HandleSaveEdit /\ editingId' = <<>> /\ Removed(editingId[1])
             => residents' = Pending(residents)]_vars
    /\ [][HandleSaveExtension /\ Removed(extendingId[1])
             => residents' = Pending(residents)]_vars
    /\ [](editingId = <<>> \/ extendingId = <<>>)

\* a save of a form of grant "5" has just been applied together with the
\* queued sweep that removed the grant, and the grant is not in the collection
NoResurrectionWitness ==
    /\ swept # <<>>
    /\ swept[1].by \in {"edit", "extension"}
    /\ \E i \in DOMAIN swept[1].dropped : swept[1].dropped[i].id = "5"
    /\ \A i \in DOMAIN residents : residents[i].id # "5"
    /\ editingId = <<>>
    /\ extendingId = <<>>

\* C30 Expiry extension versus sweep: a save of the extension row whose grant
\* is in the collection gives the grant the expiration of the row (a time, or
\* none); a sweep keeps every grant whose expiration, as it then is, has not
\* been reached or is absent; and when the sweep has removed the grant first,
\* the save brings no grant with that id.
ExtensionVersusSweep ==
    /\ [][HandleSaveExtension /\ ~Removed(extendingId[1])
             => \E i \in DOMAIN residents' :
                    /\ residents'[i].id = extendingId[1]
                    /\ residents'[i].expirationDate = extensionDate]_vars
    /\ [][Sweep => \A i \in DOMAIN residents :
                       Unexpired(residents[i], now)
                           => \E j \in DOMAIN residents' : residents'[j] = residents[i]]_vars
    /\ [][HandleSaveExtension /\ Removed(extendingId[1])
             => \A i \in DOMAIN residents' : residents'[i].id # extendingId[1]]_vars

\* the interval has just swept at a reading of the clock past the expiration
\* grant "6" was created with, and the grant, extended before, is kept
ExtensionVersusSweepWitness ==
    /\ swept # <<>>
    /\ swept[1].by = "interval"
    /\ swept[1].at = now
    /\ now >= SoonMs
    /\ now < LaterMs + 1
    /\ \E i \in DOMAIN residents :
           /\ residents[i].id = "6"
           /\ residents[i].expirationDate = <<LaterMs + 1>>
====
